---- MODULE Spec2Model ----
(***************************************************************************)
(* mwm, a tiling window manager: the client registry, the per-monitor tag  *)
(* views, the layouts, the selection and the reconciler of mwm.c (the      *)
(* multi-monitor revision), with the window system (frames of the live     *)
(* windows) and the state file as the environment.                         *)
(*                                                                         *)
(* Every handler is an operator from a state record to a state record; the *)
(* actions apply one handler to the current state.  Tag masks are the sets *)
(* of their bit numbers (bit k is workspace k+1), so & is \cap, ^ is the   *)
(* symmetric difference and a zero mask is {}.  g_mfact is held in         *)
(* hundredths (0.55 is 55).                                                *)
(***************************************************************************)
EXTENDS Integers, Sequences, FiniteSets, TLC

VARIABLES monitors, tagset, seltags, clients, sel, lastsel, windowschanged,
          g_mfact, g_nmaster, sellay, running, wins, statefile, crashed,
          steps, pc, inflight, keyq, timerdue

vars == <<monitors, tagset, seltags, clients, sel, lastsel, windowschanged,
          g_mfact, g_nmaster, sellay, running, wins, statefile, crashed,
          steps, pc, inflight, keyq, timerdue>>

(***************************************************************************)
(* Bounds of the model.                                                    *)
(***************************************************************************)
MaxMon == 2
MaxWin == 3
NTagKeys == 3
MaxSteps == 4
MaxDisplays == 3

(***************************************************************************)
(* Program constants.                                                      *)
(***************************************************************************)
NumTags == 9
DEFAULT_MFACT == 55
DEFAULT_NMASTER == 1
MFACT_STEP == 5
MFACT_MIN == 10
MFACT_MAX == 90
gappx == 10
LayoutTile == 0
LayoutMonocle == 1
LayoutFloat == 2
LayoutLast == 3
MENUBAR == 25
DOCK == 70
OFFSCREEN == 0 - 10000

NULL == 0
\* A pointer to a Client that unmanage has freed.
FREED == 0 - 1

TAGMASK == 0 .. (NumTags - 1)

RECURSIVE BitsOf(_)
\* the set of bit numbers of an unsigned mask
BitsOf(n) == IF n = 0 THEN {}
             ELSE {b + 1 : b \in BitsOf(n \div 2)} \cup (IF n % 2 = 1 THEN {0} ELSE {})

XorTags(a, b) == (a \ b) \cup (b \ a)

Wins == 1 .. MaxWin

\* The process that owns window w, and the name of each process.
WinPid(w) == IF w <= 2 THEN 1 ELSE 2

AppName(pid) == IF pid = 1 THEN <<"G","h","o","s","t","t","y">>
                ELSE <<"C","a","l","c","u","l","a","t","o","r">>

\* Where the window system opens window w.
InitFrame(w) == [x |-> 100 * w, y |-> 100 * w, w |-> 400, h |-> 300]

CGRectZero == [x |-> 0, y |-> 0, w |-> 0, h |-> 0]

\* The tag bits the key bindings reach in this model, main and secondary
\* workspaces alternating.
KeyBit(i) == <<0, 5, 1, 6, 2, 7, 3, 8, 4>>[i]

TagArgs == {{KeyBit(i)} : i \in 1 .. NTagKeys}

\* An argument with no bit inside TAGMASK (1 << 9).
NoTagArg == {NumTags}

rules == << [app |-> <<"S","y","s","t","e","m"," ","P","r","e","f","e","r","e","n","c","e","s">>,
             tags |-> {}, isfloating |-> 1],
            [app |-> <<"S","y","s","t","e","m"," ","S","e","t","t","i","n","g","s">>,
             tags |-> {}, isfloating |-> 1],
            [app |-> <<"C","a","l","c","u","l","a","t","o","r">>,
             tags |-> {}, isfloating |-> 1],
            [app |-> <<"P","r","e","v","i","e","w">>,
             tags |-> {}, isfloating |-> 1] >>

\* Other tables a config.h may hold: a rule with a tag before a rule without
\* one for the same application, and a rule without a tag before one with.
RuleTables ==
    { rules,
      << [app |-> <<"C","a","l","c">>, tags |-> {3}, isfloating |-> 0],
         [app |-> <<"C","a","l","c","u","l","a","t","o","r">>, tags |-> {}, isfloating |-> 1],
         [app |-> <<"G","h","o","s","t">>, tags |-> {4}, isfloating |-> 1] >>,
      << [app |-> <<"h","o","s","t">>, tags |-> {}, isfloating |-> 1],
         [app |-> <<"G","h","o","s","t","t","y">>, tags |-> {4}, isfloating |-> 0] >> }

\* strstr(hay, needle) != NULL
strstr(hay, needle) ==
    \E i \in 0 .. (Len(hay) - Len(needle)) :
        \A j \in 1 .. Len(needle) : hay[i + j] = needle[j]

(***************************************************************************)
(* The state record the handlers work on.  Its field arranged is an output *)
(* of a handler: whether the handler ran arrange.                          *)
(***************************************************************************)
State == [monitors |-> monitors, tagset |-> tagset, seltags |-> seltags,
          clients |-> clients, sel |-> sel, lastsel |-> lastsel,
          windowschanged |-> windowschanged, g_mfact |-> g_mfact,
          g_nmaster |-> g_nmaster, sellay |-> sellay, running |-> running,
          wins |-> wins, statefile |-> statefile, arranged |-> FALSE,
          crashed |-> crashed]

\* What reading a freed Client yields: the process stops, or the memory reads
\* as a hidden, a visible tiled or a visible floating client.
UBOutcomes == {"crash", "hidden", "tiled", "floating"}

\* The outcomes to draw from: one when no pointer dangles.
UBChoices == IF sel = FREED \/ lastsel = FREED THEN UBOutcomes ELSE {"hidden"}

nmonitors(S) == Len(S.monitors)

\* the active tag mask of a monitor: m->tagset[m->seltags]
ActiveTags(m) == m.tagset[m.seltags + 1]

isvisible(S, c) ==
    \E i \in 1 .. nmonitors(S) : c.tags \cap ActiveTags(S.monitors[i]) # {}

\* The registry index of the client a live pointer names (0 if none).
IndexOf(S, p) ==
    IF \E k \in 1 .. Len(S.clients) : S.clients[k].win = p
    THEN CHOOSE k \in 1 .. Len(S.clients) : S.clients[k].win = p
    ELSE 0

\* What a freed Client reads as under each outcome.
FreedClient(ub) ==
    [win |-> FREED, pid |-> 0,
     tags |-> IF ub \in {"tiled", "floating"} THEN TAGMASK ELSE {},
     isfloating |-> IF ub = "floating" THEN 1 ELSE 0,
     isfullscreen |-> 0, frame |-> CGRectZero]

\* *p for a pointer p # NULL
Deref(S, p, ub) == IF p = FREED THEN FreedClient(ub) ELSE S.clients[IndexOf(S, p)]

\* The process dies reading freed memory.
Crash(S) == [S EXCEPT !.crashed = TRUE]

\* The first client in registry order that satisfies P, as a pointer.
FirstClient(S, P(_)) ==
    IF \E k \in 1 .. Len(S.clients) : P(S.clients[k])
    THEN S.clients[CHOOSE k \in 1 .. Len(S.clients) :
                      /\ P(S.clients[k])
                      /\ \A j \in 1 .. (k - 1) : ~P(S.clients[j])].win
    ELSE NULL

getframe(S, w) ==
    IF S.wins[w].open
    THEN [x |-> S.wins[w].x, y |-> S.wins[w].y, w |-> S.wins[w].w, h |-> S.wins[w].h]
    ELSE CGRectZero

movewindow(S, w, px, py) ==
    IF S.wins[w].open
    THEN [S EXCEPT !.wins[w].x = px, !.wins[w].y = py]
    ELSE S

resizewindow(S, w, sw, sh) ==
    IF S.wins[w].open
    THEN [S EXCEPT !.wins[w].w = sw, !.wins[w].h = sh]
    ELSE S

focus(S, c) ==
    [S EXCEPT !.lastsel = IF S.sel # NULL /\ S.sel # c THEN S.sel ELSE @,
              !.sel = c]


\* hidewindow moving the window by the off-screen distance instead of to it
hidewindow_relative(S, c) ==
    movewindow(S, c.win, getframe(S, c.win).x + OFFSCREEN, getframe(S, c.win).y + OFFSCREEN)

hidewindow(S, c) == movewindow(S, c.win, OFFSCREEN, OFFSCREEN)

RECURSIVE TiledFrom_withfloating(_, _, _)
\* the layout's client filter without the test of the floating flag
TiledFrom_withfloating(S, m, k) ==
    IF k > Len(S.clients) THEN <<>>
    ELSE LET c == S.clients[k]
         IN (IF isvisible(S, c) /\ c.tags \cap m.tags # {}
             THEN <<k>> ELSE <<>>) \o TiledFrom_withfloating(S, m, k + 1)

\* The registry indices, in registry order, of the clients a layout places on
\* monitor m: visible, not floating, tags meeting the monitor's own tags.
RECURSIVE TiledFrom(_, _, _)
TiledFrom(S, m, k) ==
    IF k > Len(S.clients) THEN <<>>
    ELSE LET c == S.clients[k]
         IN (IF isvisible(S, c) /\ c.isfloating = 0 /\ c.tags \cap m.tags # {}
             THEN <<k>> ELSE <<>>) \o TiledFrom(S, m, k + 1)

\* movewindow + resizewindow + c->frame = ... for the client at index k
place(S, k, f) ==
    LET w  == S.clients[k].win
        S1 == resizewindow(movewindow(S, w, f.x, f.y), w, f.w, f.h)
    IN [S1 EXCEPT !.clients[k].frame = f]

\* tile taking one gap, not three, off the width it splits
TileSlot_onegap(rect, n, i, mfact, nmaster, gap) ==
    LET mx == rect.x + gap
        my == rect.y + gap
        allmaster == n <= nmaster
        mw == IF allmaster THEN rect.w - 2 * gap
              ELSE ((rect.w - gap) * mfact) \div 100
        mh == IF allmaster THEN (rect.h - (n + 1) * gap) \div n
              ELSE (rect.h - (nmaster + 1) * gap) \div nmaster
        sx == mx + mw + gap
        sy == my
        sw == rect.w - mw - 3 * gap
        sh == (rect.h - (n - nmaster + 1) * gap) \div (n - nmaster)
    IN IF i < nmaster
       THEN [x |-> mx, y |-> my + i * (mh + gap), w |-> mw, h |-> mh]
       ELSE [x |-> sx, y |-> sy + (i - nmaster) * (sh + gap), w |-> sw, h |-> sh]

\* tile stacking the slots of a column with no gap between them
TileSlot_flush(rect, n, i, mfact, nmaster, gap) ==
    LET mx == rect.x + gap
        my == rect.y + gap
        allmaster == n <= nmaster
        mw == IF allmaster THEN rect.w - 2 * gap
              ELSE ((rect.w - 3 * gap) * mfact) \div 100
        mh == IF allmaster THEN (rect.h - (n + 1) * gap) \div n
              ELSE (rect.h - (nmaster + 1) * gap) \div nmaster
        sx == mx + mw + gap
        sy == my
        sw == rect.w - mw - 3 * gap
        sh == (rect.h - (n - nmaster + 1) * gap) \div (n - nmaster)
    IN IF i < nmaster
       THEN [x |-> mx, y |-> my + i * mh, w |-> mw, h |-> mh]
       ELSE [x |-> sx, y |-> sy + (i - nmaster) * sh, w |-> sw, h |-> sh]

\* The rectangle tile gives slot i (from 0) of n on a monitor rectangle.
TileSlot(rect, n, i, mfact, nmaster, gap) ==
    LET mx == rect.x + gap
        my == rect.y + gap
        allmaster == n <= nmaster
        mw == IF allmaster THEN rect.w - 2 * gap
              ELSE ((rect.w - 3 * gap) * mfact) \div 100
        mh == IF allmaster THEN (rect.h - (n + 1) * gap) \div n
              ELSE (rect.h - (nmaster + 1) * gap) \div nmaster
        sx == mx + mw + gap
        sy == my
        sw == rect.w - mw - 3 * gap
        sh == (rect.h - (n - nmaster + 1) * gap) \div (n - nmaster)
    IN IF i < nmaster
       THEN [x |-> mx, y |-> my + i * (mh + gap), w |-> mw, h |-> mh]
       ELSE [x |-> sx, y |-> sy + (i - nmaster) * (sh + gap), w |-> sw, h |-> sh]

\* The master height of the master + stack branch is a quotient by g_nmaster:
\* with g_nmaster 0 the double is infinite (or not a number) and its
\* conversion to the int mh is undefined.  The value is read by no slot.
TileUndefined(n, nmaster) == n > nmaster /\ nmaster = 0

RECURSIVE TilePlace(_, _, _, _)
TilePlace(S, m, idx, i) ==
    IF i >= Len(idx) THEN S
    ELSE TilePlace(place(S, idx[i + 1],
                         TileSlot(m.rect, Len(idx), i, S.g_mfact, S.g_nmaster, gappx)),
                   m, idx, i + 1)

RECURSIVE TileFrom(_, _)
TileFrom(S, mon) ==
    IF mon > nmonitors(S) THEN S
    ELSE LET m == S.monitors[mon]
         IN TileFrom(TilePlace(S, m, TiledFrom(S, m, 1), 0), mon + 1)

tile(S) == TileFrom(S, 1)

\* monocle giving the whole monitor rectangle, no gap taken off
MonocleRect_nogap(rect, gap) ==
    [x |-> rect.x, y |-> rect.y, w |-> rect.w, h |-> rect.h]

MonocleRect(rect, gap) ==
    [x |-> rect.x + gap, y |-> rect.y + gap, w |-> rect.w - 2 * gap, h |-> rect.h - 2 * gap]

RECURSIVE MonoclePlace(_, _, _, _)
MonoclePlace(S, m, idx, i) ==
    IF i >= Len(idx) THEN S
    ELSE MonoclePlace(place(S, idx[i + 1], MonocleRect(m.rect, gappx)), m, idx, i + 1)

RECURSIVE MonocleFrom(_, _)
MonocleFrom(S, mon) ==
    IF mon > nmonitors(S) THEN S
    ELSE LET m == S.monitors[mon]
         IN MonocleFrom(MonoclePlace(S, m, TiledFrom(S, m, 1), 0), mon + 1)

monocle(S) == MonocleFrom(S, 1)

\* layouts[sellay].arrange, NULL for the floating layout
layouts(S) ==
    IF S.sellay = LayoutTile THEN tile(S)
    ELSE IF S.sellay = LayoutMonocle THEN monocle(S)
    ELSE S

RECURSIVE HideFrom(_, _)
HideFrom(S, k) ==
    IF k > Len(S.clients) THEN S
    ELSE HideFrom(IF isvisible(S, S.clients[k]) THEN S ELSE hidewindow(S, S.clients[k]),
                  k + 1)

FirstVisible(S) == LET P(c) == isvisible(S, c) IN FirstClient(S, P)

\* arrange hiding the clients that are not visible only when a layout
\* function follows
arrange_hideiflayout(S, ub) ==
    LET S1 == IF S.sellay = LayoutFloat THEN S ELSE HideFrom(S, 1)
        S2 == layouts(S1)
        S3 == IF S2.sel # NULL /\ isvisible(S2, Deref(S2, S2.sel, ub))
              THEN focus(S2, S2.sel)
              ELSE IF FirstVisible(S2) # NULL THEN focus(S2, FirstVisible(S2))
              ELSE S2
    IN IF S.sel = FREED /\ ub = "crash" THEN Crash(S)
       ELSE [S3 EXCEPT !.arranged = TRUE]

arrange(S, ub) ==
    LET S1 == HideFrom(S, 1)
        S2 == layouts(S1)
        S3 == IF S2.sel # NULL /\ isvisible(S2, Deref(S2, S2.sel, ub))
              THEN focus(S2, S2.sel)
              ELSE IF FirstVisible(S2) # NULL THEN focus(S2, FirstVisible(S2))
              ELSE S2
    IN IF S.sel = FREED /\ ub = "crash" THEN Crash(S)
       ELSE [S3 EXCEPT !.arranged = TRUE]


(***************************************************************************)
(* The state file.                                                         *)
(***************************************************************************)
\* The number cJSON holds, read back through valueint (saturating at INT_MAX).
valueint(n) == IF n > 2147483647 THEN 2147483647 ELSE n

RECURSIVE MaskOf(_)
\* the unsigned value of a tag mask
MaskOf(t) == IF t = {} THEN 0
             ELSE LET b == CHOOSE x \in t : \A y \in t : y <= x
                  IN 2 ^ b + MaskOf(t \ {b})

savestate(S) ==
    [S EXCEPT !.statefile =
        [k \in 1 .. Len(S.clients) |->
            [app |-> AppName(S.clients[k].pid),
             tags |-> MaskOf(S.clients[k].tags),
             floating |-> S.clients[k].isfloating]]]

\* restorestate: the first entry of the file for appname, if any
restorestate(file, appname) ==
    IF \E k \in 1 .. Len(file) : file[k].app = appname
    THEN LET k == CHOOSE j \in 1 .. Len(file) :
                     /\ file[j].app = appname
                     /\ \A i \in 1 .. (j - 1) : file[i].app # appname
         IN [found |-> TRUE, tags |-> BitsOf(valueint(file[k].tags)),
             floating |-> valueint(file[k].floating)]
    ELSE [found |-> FALSE, tags |-> {}, floating |-> 0]

(***************************************************************************)
(* The status summary.                                                     *)
(***************************************************************************)
RECURSIVE TagNumber(_)
\* the 1-based tag number updatestatusbar computes from a mask:
\* tag = 1; while (t > 1) { t >>= 1; tag++; }
TagNumber(t) == IF t > 1 THEN 1 + TagNumber(t \div 2) ELSE 1

\* the tuple updatestatusbar hands to statusbar_update in state S
updatestatusbar(S) ==
    [tag |-> TagNumber(MaskOf(S.tagset[S.seltags + 1])),
     layout |-> S.sellay,
     window |-> S.sel]

(***************************************************************************)
(* The client registry.                                                    *)
(***************************************************************************)
\* the first rule of the table rs whose app is a substring of the process
\* name (0 if none)
MatchRule(rs, app) ==
    IF \E i \in 1 .. Len(rs) : strstr(app, rs[i].app)
    THEN CHOOSE i \in 1 .. Len(rs) :
            /\ strstr(app, rs[i].app)
            /\ \A j \in 1 .. (i - 1) : ~strstr(app, rs[j].app)
    ELSE 0

\* the rules loop letting the last matching rule stand (no break)
ApplyRules_lastmatch(rs, app, c) ==
    LET hits == {i \in 1 .. Len(rs) : strstr(app, rs[i].app)}
        r    == IF hits = {} THEN 0 ELSE CHOOSE i \in hits : \A j \in hits : j <= i
    IN IF r = 0 THEN c
       ELSE [c EXCEPT !.tags = IF rs[r].tags # {} THEN rs[r].tags ELSE @,
                      !.isfloating = rs[r].isfloating]

\* the rules loop of manage over the table rs
ApplyRules(rs, app, c) ==
    LET r == MatchRule(rs, app)
    IN IF r = 0 THEN c
       ELSE [c EXCEPT !.tags = IF rs[r].tags # {} THEN rs[r].tags ELSE @,
                      !.isfloating = rs[r].isfloating]

\* the Client manage builds for window w, the rules of config.h being rs
newclient(S, w, rs) ==
    LET app == AppName(WinPid(w))
        c0  == [win |-> w, pid |-> WinPid(w), tags |-> S.tagset[S.seltags + 1],
                isfloating |-> 0, isfullscreen |-> 0, frame |-> getframe(S, w)]
        c1  == ApplyRules(rs, app, c0)
        sv  == restorestate(S.statefile, app)
    IN IF sv.found
       THEN [c1 EXCEPT !.tags = IF sv.tags # {} THEN sv.tags ELSE @,
                       !.isfloating = sv.floating]
       ELSE c1

\* manage attaching the new client at the tail of the list
manage_append(S, w) ==
    focus([S EXCEPT !.clients = @ \o <<newclient(S, w, rules)>>], w)

manage(S, w) ==
    focus([S EXCEPT !.clients = <<newclient(S, w, rules)>> \o @], w)

\* the registry without its k-th entry
detach(cs, k) == SubSeq(cs, 1, k - 1) \o SubSeq(cs, k + 1, Len(cs))

\* unmanage that leaves sel on the client it frees
unmanage_keepsel(S, k) ==
    LET c == S.clients[k]
    IN [S EXCEPT !.clients = detach(@, k),
                 !.lastsel = IF @ = c.win THEN FREED ELSE @,
                 !.sel = IF @ = c.win THEN FREED ELSE @]

unmanage(S, k) ==
    LET c  == S.clients[k]
        S1 == [S EXCEPT !.clients = detach(@, k),
                        !.lastsel = IF @ = c.win THEN FREED ELSE @]
    IN IF S.sel = c.win
       THEN LET head == IF S1.clients = <<>> THEN NULL ELSE S1.clients[1].win
                S2   == [S1 EXCEPT !.sel = head]
            IN IF head # NULL THEN focus(S2, head) ELSE S2
       ELSE S1


(***************************************************************************)
(* The reconciler.                                                         *)
(***************************************************************************)
\* the first client with the window's pid whose live frame equals the
\* window's live frame (0 if none)
MatchClient(S, w) ==
    LET hit(k) == /\ S.clients[k].pid = WinPid(w)
                  /\ getframe(S, w) = getframe(S, S.clients[k].win)
    IN IF \E k \in 1 .. Len(S.clients) : hit(k)
       THEN CHOOSE k \in 1 .. Len(S.clients) :
               hit(k) /\ \A j \in 1 .. (k - 1) : ~hit(j)
       ELSE 0

\* The loop over the live windows, in handle order.  A process's windows are
\* walked once per on-screen window it owns; the repeated walks find every
\* window matched and change nothing, so one walk stands for them.
RECURSIVE EnumFrom(_, _)
EnumFrom(S, w) ==
    IF w > MaxWin THEN S
    ELSE IF ~S.wins[w].open THEN EnumFrom(S, w + 1)
    ELSE LET k == MatchClient(S, w)
         IN EnumFrom(IF k # 0 THEN [S EXCEPT !.clients[k].isfullscreen = 0]
                     ELSE manage(S, w),
                     w + 1)

RECURSIVE RemoveStaleFrom(_, _)
RemoveStaleFrom(S, k) ==
    IF k > Len(S.clients) THEN S
    ELSE IF S.clients[k].isfullscreen = 0 - 1
         THEN RemoveStaleFrom(unmanage(S, k), k)
         ELSE RemoveStaleFrom([S EXCEPT !.clients[k].isfullscreen = 0], k + 1)

RECURSIVE MarkStale(_)
\* every client is marked (isfullscreen = -1) before the enumeration
MarkStale(cs) ==
    IF cs = <<>> THEN <<>>
    ELSE <<[Head(cs) EXCEPT !.isfullscreen = 0 - 1]>> \o MarkStale(Tail(cs))

\* updateclients taking a failed enumeration for an empty window list
updateclients_emptylist(S, enumok) ==
    LET S1 == [S EXCEPT !.clients = MarkStale(@)]
    IN RemoveStaleFrom(IF enumok THEN EnumFrom(S1, 1) ELSE S1, 1)

\* enumok: CGWindowListCopyWindowInfo returned a list
updateclients(S, enumok) ==
    IF ~enumok THEN S
    ELSE LET S1 == [S EXCEPT !.clients = MarkStale(@)]
         IN RemoveStaleFrom(EnumFrom(S1, 1), 1)

\* scan looking at the client count only, not at windowschanged
scan_countonly(S, enumok, ub) ==
    LET oldcount == Len(S.clients)
        S1 == updateclients(S, enumok)
        newcount == Len(S1.clients)
    IN IF oldcount # newcount
       THEN [arrange(S1, ub) EXCEPT !.windowschanged = FALSE]
       ELSE S1

scan(S, enumok, ub) ==
    LET oldcount == Len(S.clients)
        S1 == updateclients(S, enumok)
        newcount == Len(S1.clients)
    IN IF oldcount # newcount \/ S1.windowschanged
       THEN [arrange(S1, ub) EXCEPT !.windowschanged = FALSE]
       ELSE S1

(***************************************************************************)
(* The commands.                                                           *)
(***************************************************************************)
getmonitorbytags(S, tags) ==
    IF \E i \in 1 .. nmonitors(S) : tags \cap S.monitors[i].tags # {}
    THEN CHOOSE i \in 1 .. nmonitors(S) :
            /\ tags \cap S.monitors[i].tags # {}
            /\ \A j \in 1 .. (i - 1) : tags \cap S.monitors[j].tags = {}
    ELSE 1

\* the first visible client at a registry index in idxs, as a pointer
FirstVisibleIn(S, idxs) ==
    IF \E k \in idxs : isvisible(S, S.clients[k])
    THEN S.clients[CHOOSE k \in idxs :
                      /\ isvisible(S, S.clients[k])
                      /\ \A j \in idxs : j < k => ~isvisible(S, S.clients[j])].win
    ELSE NULL

\* the last visible client at a registry index in idxs, as a pointer
LastVisibleIn(S, idxs) ==
    IF \E k \in idxs : isvisible(S, S.clients[k])
    THEN S.clients[CHOOSE k \in idxs :
                      /\ isvisible(S, S.clients[k])
                      /\ \A j \in idxs : j > k => ~isvisible(S, S.clients[j])].win
    ELSE NULL

\* focusnext without the second loop, the one that wraps to the list head
focusnext_nowrap(S, ub) ==
    IF S.sel = NULL THEN S
    ELSE IF S.sel = FREED
    THEN IF ub = "crash" THEN Crash(S)
         ELSE LET c == FirstVisibleIn(S, 1 .. Len(S.clients))
              IN IF c # NULL THEN focus(S, c) ELSE S
    ELSE LET k == IndexOf(S, S.sel)
             c == FirstVisibleIn(S, (k + 1) .. Len(S.clients))
         IN IF c # NULL THEN focus(S, c) ELSE S

focusnext(S, ub) ==
    IF S.sel = NULL THEN S
    ELSE IF S.sel = FREED
    THEN \* sel->next reads NULL, as detach left it
         IF ub = "crash" THEN Crash(S)
         ELSE LET c == FirstVisibleIn(S, 1 .. Len(S.clients))
              IN IF c # NULL THEN focus(S, c) ELSE S
    ELSE LET k  == IndexOf(S, S.sel)
             c1 == FirstVisibleIn(S, (k + 1) .. Len(S.clients))
             c  == IF c1 # NULL THEN c1 ELSE FirstVisibleIn(S, 1 .. (k - 1))
         IN IF c # NULL THEN focus(S, c) ELSE S

\* focusprev without the second loop, the one that wraps to the list tail
focusprev_nowrap(S, ub) ==
    IF S.sel = NULL THEN S
    ELSE IF S.sel = FREED THEN Crash(S)
    ELSE LET k == IndexOf(S, S.sel)
             l == LastVisibleIn(S, 1 .. (k - 1))
         IN IF l # NULL THEN focus(S, l) ELSE S

focusprev(S, ub) ==
    IF S.sel = NULL THEN S
    ELSE IF S.sel = FREED
    THEN \* the walk from clients never meets sel and runs off the list
         Crash(S)
    ELSE LET k  == IndexOf(S, S.sel)
             l1 == LastVisibleIn(S, 1 .. (k - 1))
             l  == IF l1 # NULL THEN l1 ELSE LastVisibleIn(S, (k + 1) .. Len(S.clients))
         IN IF l # NULL THEN focus(S, l) ELSE S

\* focuslast without the test that lastsel is visible
focuslast_anyway(S, ub) ==
    IF S.lastsel = NULL THEN S
    ELSE IF S.lastsel = FREED /\ ub = "crash" THEN Crash(S)
    ELSE focus(S, S.lastsel)

focuslast(S, ub) ==
    IF S.lastsel = NULL THEN S
    ELSE IF S.lastsel = FREED /\ ub = "crash" THEN Crash(S)
    ELSE IF isvisible(S, Deref(S, S.lastsel, ub)) THEN focus(S, S.lastsel)
    ELSE S

\* focusmon taking the farthest monitor on that side, not the nearest
focusmon_farthest(S, dir, ub) ==
    IF S.sel = NULL \/ nmonitors(S) < 2 THEN S
    ELSE IF S.sel = FREED /\ ub = "crash" THEN Crash(S)
    ELSE LET m    == getmonitorbytags(S, Deref(S, S.sel, ub).tags)
             mx   == S.monitors[m].rect.x
             cand == {i \in 1 .. nmonitors(S) :
                         i # m /\ dir * (S.monitors[i].rect.x - mx) > 0}
         IN IF cand = {} THEN S
            ELSE LET t == CHOOSE i \in cand :
                            \A j \in cand :
                               dir * (S.monitors[i].rect.x - S.monitors[j].rect.x) >= 0
                     P(c) == isvisible(S, c) /\ c.tags \cap S.monitors[t].tags # {}
                     c == FirstClient(S, P)
                 IN IF c # NULL THEN focus(S, c) ELSE S

\* dir = -1 for focusleftmon, 1 for focusrightmon
focusmon(S, dir, ub) ==
    IF S.sel = NULL \/ nmonitors(S) < 2 THEN S
    ELSE IF S.sel = FREED /\ ub = "crash" THEN Crash(S)
    ELSE LET m    == getmonitorbytags(S, Deref(S, S.sel, ub).tags)
             mx   == S.monitors[m].rect.x
             cand == {i \in 1 .. nmonitors(S) :
                         i # m /\ dir * (S.monitors[i].rect.x - mx) > 0}
         IN IF cand = {} THEN S
            ELSE LET t == CHOOSE i \in cand :
                            \A j \in cand :
                               \/ dir * (S.monitors[j].rect.x - S.monitors[i].rect.x) > 0
                               \/ (S.monitors[j].rect.x = S.monitors[i].rect.x /\ i <= j)
                     P(c) == isvisible(S, c) /\ c.tags \cap S.monitors[t].tags # {}
                     c == FirstClient(S, P)
                 IN IF c # NULL THEN focus(S, c) ELSE S

focusleftmon(S, ub) == focusmon(S, 0 - 1, ub)

focusrightmon(S, ub) == focusmon(S, 1, ub)

\* the registry indices of the visible non-floating clients in idxs
TiledIn(S, idxs) ==
    {k \in idxs : isvisible(S, S.clients[k]) /\ S.clients[k].isfloating = 0}

swapnext(S, ub) ==
    IF S.sel = NULL THEN S
    ELSE IF S.sel = FREED /\ ub = "crash" THEN Crash(S)
    ELSE IF Deref(S, S.sel, ub).isfloating # 0 THEN S
    ELSE IF S.sel = FREED THEN S
    ELSE IF TiledIn(S, (IndexOf(S, S.sel) + 1) .. Len(S.clients)) = {} THEN S
    ELSE arrange([S EXCEPT !.windowschanged = TRUE], ub)

swapprev(S, ub) ==
    IF S.sel = NULL THEN S
    ELSE IF S.sel = FREED /\ ub = "crash" THEN Crash(S)
    ELSE IF Deref(S, S.sel, ub).isfloating # 0 THEN S
    ELSE IF S.sel = FREED THEN Crash(S)
    ELSE IF TiledIn(S, 1 .. (IndexOf(S, S.sel) - 1)) = {} THEN S
    ELSE arrange([S EXCEPT !.windowschanged = TRUE], ub)

\* Pressing the close button closes the window in the window system; the
\* registry is left to the reconciler.
killclient(S, ub) ==
    IF S.sel = NULL THEN S
    ELSE IF S.sel = FREED THEN (IF ub = "crash" THEN Crash(S) ELSE S)
    ELSE [S EXCEPT !.wins[S.sel] = [open |-> FALSE] @@ InitFrame(S.sel)]

\* setmfact with the range of the comment in config.h, [0.05..0.95]
setmfact_widerange(S, f, ub) ==
    LET g == S.g_mfact + f
    IN IF g < 5 \/ g > 95 THEN S
       ELSE arrange([S EXCEPT !.g_mfact = g, !.windowschanged = TRUE], ub)

setmfact(S, f, ub) ==
    LET g == S.g_mfact + f
    IN IF g < MFACT_MIN \/ g > MFACT_MAX THEN S
       ELSE arrange([S EXCEPT !.g_mfact = g, !.windowschanged = TRUE], ub)

MAX(a, b) == IF a > b THEN a ELSE b

incnmaster(S, i, ub) ==
    arrange([S EXCEPT !.g_nmaster = MAX(0, @ + i), !.windowschanged = TRUE], ub)

setlayout(S, i, ub) ==
    arrange([S EXCEPT !.sellay = IF i >= 0 /\ i < LayoutLast THEN i ELSE @,
                      !.windowschanged = TRUE], ub)

cyclelayout(S, ub) ==
    arrange([S EXCEPT !.sellay = (@ + 1) % LayoutLast, !.windowschanged = TRUE], ub)

togglefloat(S, ub) ==
    IF S.sel = NULL THEN S
    ELSE IF S.sel = FREED
    THEN \* the write lands in freed memory
         IF ub = "crash" THEN Crash(S)
         ELSE savestate(arrange([S EXCEPT !.windowschanged = TRUE], ub))
    ELSE LET k == IndexOf(S, S.sel)
         IN savestate(arrange([S EXCEPT !.clients[k].isfloating = IF @ = 0 THEN 1 ELSE 0,
                                        !.windowschanged = TRUE], ub))

\* view writing the new mask over the slot in use, the selector not flipped
view_noflip(S, arg, ub) ==
    LET newtags == arg \cap TAGMASK
        m == getmonitorbytags(S, newtags)
    IN IF ActiveTags(S.monitors[m]) = newtags THEN S
       ELSE LET slot == S.monitors[m].seltags
                S1 == [S EXCEPT !.monitors[m].tagset[slot + 1] = newtags,
                                !.windowschanged = TRUE]
                S2 == arrange(S1, ub)
                P(c) == isvisible(S2, c) /\ c.tags \cap S2.monitors[m].tags # {}
                c == FirstClient(S2, P)
            IN IF c # NULL THEN focus(S2, c) ELSE S2

\* view without the test for the mask already shown
view_nocheck(S, arg, ub) ==
    LET newtags == arg \cap TAGMASK
        m == getmonitorbytags(S, newtags)
        slot == 1 - S.monitors[m].seltags
        S1 == [S EXCEPT !.monitors[m].seltags = slot,
                        !.monitors[m].tagset[slot + 1] = newtags,
                        !.windowschanged = TRUE]
        S2 == arrange(S1, ub)
        P(c) == isvisible(S2, c) /\ c.tags \cap S2.monitors[m].tags # {}
        c == FirstClient(S2, P)
    IN IF c # NULL THEN focus(S2, c) ELSE S2

view(S, arg, ub) ==
    LET newtags == arg \cap TAGMASK
        m == getmonitorbytags(S, newtags)
    IN IF ActiveTags(S.monitors[m]) = newtags THEN S
       ELSE LET slot == 1 - S.monitors[m].seltags
                S1 == [S EXCEPT !.monitors[m].seltags = slot,
                                !.monitors[m].tagset[slot + 1] = newtags,
                                !.windowschanged = TRUE]
                S2 == arrange(S1, ub)
                P(c) == isvisible(S2, c) /\ c.tags \cap S2.monitors[m].tags # {}
                c == FirstClient(S2, P)
            IN IF c # NULL THEN focus(S2, c) ELSE S2

\* toggleview committing whatever the XOR gives
toggleview_unchecked(S, arg, ub) ==
    LET newtags == arg \cap TAGMASK
        m == getmonitorbytags(S, newtags)
        newtagset == XorTags(ActiveTags(S.monitors[m]), newtags)
    IN arrange([S EXCEPT !.monitors[m].tagset[S.monitors[m].seltags + 1] = newtagset,
                         !.windowschanged = TRUE], ub)

toggleview(S, arg, ub) ==
    LET newtags == arg \cap TAGMASK
        m == getmonitorbytags(S, newtags)
        newtagset == XorTags(ActiveTags(S.monitors[m]), newtags)
    IN IF newtagset # {} /\ newtagset \cap S.monitors[m].tags # {}
       THEN arrange([S EXCEPT !.monitors[m].tagset[S.monitors[m].seltags + 1] = newtagset,
                              !.windowschanged = TRUE], ub)
       ELSE S

\* tag without the call of savestate
tag_nosave(S, arg, ub) ==
    IF S.sel = NULL \/ arg \cap TAGMASK = {} THEN S
    ELSE IF S.sel = FREED /\ ub = "crash" THEN Crash(S)
    ELSE LET S1 == IF S.sel = FREED THEN S
                   ELSE [S EXCEPT !.clients[IndexOf(S, S.sel)].tags = arg \cap TAGMASK]
             S2 == arrange([S1 EXCEPT !.windowschanged = TRUE], ub)
             c  == FirstVisible(S2)
         IN IF c # NULL THEN focus(S2, c) ELSE S2

\* tag without the test of the masked argument
tag_unmasked(S, arg, ub) ==
    IF S.sel = NULL THEN S
    ELSE IF S.sel = FREED /\ ub = "crash" THEN Crash(S)
    ELSE LET S1 == IF S.sel = FREED THEN S
                   ELSE [S EXCEPT !.clients[IndexOf(S, S.sel)].tags = arg \cap TAGMASK]
             S2 == savestate(arrange([S1 EXCEPT !.windowschanged = TRUE], ub))
             c  == FirstVisible(S2)
         IN IF c # NULL THEN focus(S2, c) ELSE S2

tag(S, arg, ub) ==
    IF S.sel = NULL \/ arg \cap TAGMASK = {} THEN S
    ELSE IF S.sel = FREED /\ ub = "crash" THEN Crash(S)
    ELSE LET S1 == IF S.sel = FREED THEN S
                   ELSE [S EXCEPT !.clients[IndexOf(S, S.sel)].tags = arg \cap TAGMASK]
             S2 == savestate(arrange([S1 EXCEPT !.windowschanged = TRUE], ub))
             c  == FirstVisible(S2)
         IN IF c # NULL THEN focus(S2, c) ELSE S2

quit(S) == [S EXCEPT !.running = FALSE]


(***************************************************************************)
(* Start-up.                                                               *)
(***************************************************************************)
\* The display lists CGGetActiveDisplayList may return: n displays side by
\* side, the mi-th being the main one at the origin.
Displays(n, mi) ==
    [i \in 1 .. n |->
        [rect |-> [x |-> (i - mi) * 1000, y |-> 0, w |-> 1000,
                   h |-> IF i = mi THEN 800 + MENUBAR + DOCK ELSE 800],
         main |-> (i = mi)]]

setupmonitors(displays) ==
    [i \in 1 .. Len(displays) |->
        IF displays[i].main
        THEN [rect |-> [displays[i].rect EXCEPT !.y = @ + MENUBAR,
                                                !.h = @ - MENUBAR - DOCK],
              tags |-> BitsOf(31), tagset |-> <<BitsOf(1), BitsOf(1)>>, seltags |-> 0]
        ELSE [rect |-> displays[i].rect,
              tags |-> BitsOf(480), tagset |-> <<BitsOf(32), BitsOf(32)>>, seltags |-> 0]]

Init ==
    /\ \E n \in 1 .. MaxMon : \E mi \in 1 .. n :
          monitors = setupmonitors(Displays(n, mi))
    /\ tagset = <<BitsOf(1), BitsOf(1)>>
    /\ seltags = 0
    /\ clients = <<>>
    /\ sel = NULL
    /\ lastsel = NULL
    /\ windowschanged = FALSE
    /\ g_mfact = DEFAULT_MFACT
    /\ g_nmaster = DEFAULT_NMASTER
    /\ sellay = LayoutTile
    /\ running = TRUE
    /\ \E opened \in SUBSET Wins :
          wins = [w \in Wins |-> [open |-> (w \in opened)] @@ InitFrame(w)]
    /\ statefile = <<>>
    /\ crashed = FALSE
    /\ steps = 0
    /\ pc = "start"
    /\ inflight = <<>>
    /\ keyq = 0
    /\ timerdue = FALSE

(***************************************************************************)
(* The actions: one handler run to completion on the run loop.             *)
(***************************************************************************)
\* the state a handler starts from
Entry == State

Alive == running /\ ~crashed

\* the main thread's position in run() and the events waiting on its run loop
loopvars == <<pc, inflight, keyq, timerdue>>

\* One more event of a run of at most MaxSteps events.
Budget == steps < MaxSteps /\ steps' = steps + 1

\* an event handled as a whole, the run loop left out of the picture
Step == Budget /\ UNCHANGED loopvars

Apply(R) ==
    IF R.crashed
    THEN /\ crashed' = TRUE
         /\ UNCHANGED <<monitors, tagset, seltags, clients, sel, lastsel,
                        windowschanged, g_mfact, g_nmaster, sellay, running, wins,
                        statefile>>
    ELSE /\ monitors' = R.monitors
         /\ tagset' = R.tagset
         /\ seltags' = R.seltags
         /\ clients' = R.clients
         /\ sel' = R.sel
         /\ lastsel' = R.lastsel
         /\ windowschanged' = R.windowschanged
         /\ g_mfact' = R.g_mfact
         /\ g_nmaster' = R.g_nmaster
         /\ sellay' = R.sellay
         /\ running' = R.running
         /\ wins' = R.wins
         /\ statefile' = R.statefile
         /\ crashed' = FALSE

WindowOpens ==
    /\ Alive
    /\ Step
    /\ \E w \in Wins :
          /\ ~wins[w].open
          /\ wins' = [wins EXCEPT ![w] = [open |-> TRUE] @@ InitFrame(w)]
    /\ UNCHANGED <<monitors, tagset, seltags, clients, sel, lastsel, windowschanged,
                   g_mfact, g_nmaster, sellay, running, statefile, crashed>>

WindowCloses ==
    /\ Alive
    /\ Step
    /\ \E w \in Wins :
          /\ wins[w].open
          /\ wins' = [wins EXCEPT ![w] = [open |-> FALSE] @@ InitFrame(w)]
    /\ UNCHANGED <<monitors, tagset, seltags, clients, sel, lastsel, windowschanged,
                   g_mfact, g_nmaster, sellay, running, statefile, crashed>>

Scan == Alive /\ Step /\ \E enumok \in BOOLEAN, ub \in UBChoices : Apply(scan(Entry, enumok, ub))

Focusnext == Alive /\ Step /\ \E ub \in UBChoices : Apply(focusnext(Entry, ub))

Focusprev == Alive /\ Step /\ \E ub \in UBChoices : Apply(focusprev(Entry, ub))

Focuslast == Alive /\ Step /\ \E ub \in UBChoices : Apply(focuslast(Entry, ub))

Focusleftmon == Alive /\ Step /\ \E ub \in UBChoices : Apply(focusleftmon(Entry, ub))

Focusrightmon == Alive /\ Step /\ \E ub \in UBChoices : Apply(focusrightmon(Entry, ub))

Swapnext == Alive /\ Step /\ \E ub \in UBChoices : Apply(swapnext(Entry, ub))

Swapprev == Alive /\ Step /\ \E ub \in UBChoices : Apply(swapprev(Entry, ub))

Killclient == Alive /\ Step /\ \E ub \in UBChoices : Apply(killclient(Entry, ub))

Setmfact ==
    Alive /\ Step /\ \E f \in {0 - MFACT_STEP, MFACT_STEP}, ub \in UBChoices :
                /\ Apply(setmfact(Entry, f, ub))

Incnmaster ==
    Alive /\ Step /\ \E i \in {0 - 1, 1}, ub \in UBChoices :
                Apply(incnmaster(Entry, i, ub))

Setlayout ==
    Alive /\ Step /\ \E i \in (0 - 1) .. LayoutLast, ub \in UBChoices :
                Apply(setlayout(Entry, i, ub))

Cyclelayout == Alive /\ Step /\ \E ub \in UBChoices : Apply(cyclelayout(Entry, ub))

Togglefloat == Alive /\ Step /\ \E ub \in UBChoices : Apply(togglefloat(Entry, ub))

View == Alive /\ Step /\ \E a \in TagArgs, ub \in UBChoices : Apply(view(Entry, a, ub))

Toggleview == Alive /\ Step /\ \E a \in TagArgs, ub \in UBChoices : Apply(toggleview(Entry, a, ub))

Tag ==
    Alive /\ Step /\ \E a \in TagArgs \cup {NoTagArg}, ub \in UBChoices :
                          Apply(tag(Entry, a, ub))

Quit == Alive /\ Step /\ Apply(quit(Entry))

Next ==
    \/ WindowOpens
    \/ WindowCloses
    \/ Scan
    \/ Focusnext
    \/ Focusprev
    \/ Focuslast
    \/ Focusleftmon
    \/ Focusrightmon
    \/ Swapnext
    \/ Swapprev
    \/ Killclient
    \/ Setmfact
    \/ Incnmaster
    \/ Setlayout
    \/ Cyclelayout
    \/ Togglefloat
    \/ View
    \/ Toggleview
    \/ Tag
    \/ Quit

Spec == Init /\ [][Next]_vars


(***************************************************************************)
(* The master fraction over its whole range: setmfact, the reconciler and  *)
(* the layout switch, in runs of any length.                               *)
(***************************************************************************)
MfSetmfact ==
    /\ Alive
    /\ \E f \in {0 - MFACT_STEP, MFACT_STEP}, ub \in UBChoices :
          Apply(setmfact(Entry, f, ub))
    /\ UNCHANGED <<steps, loopvars>>

MfScan ==
    /\ Alive
    /\ \E ub \in UBChoices : Apply(scan(Entry, TRUE, ub))
    /\ UNCHANGED <<steps, loopvars>>

MfCyclelayout ==
    /\ Alive
    /\ \E ub \in UBChoices : Apply(cyclelayout(Entry, ub))
    /\ UNCHANGED <<steps, loopvars>>

NextMfact ==
    \/ MfSetmfact
    \/ MfScan
    \/ MfCyclelayout

SpecMfact == Init /\ [][NextMfact]_vars

(***************************************************************************)
(* The layouts over their parameters: the master fraction and the master   *)
(* count are whatever setmfact and incnmaster left them at before the first*)
(* window was managed; then the reconciler, the layout switch, the float   *)
(* toggle and the selection commands.                                      *)
(***************************************************************************)
\* monitor rectangles of other displays than the ones Displays lists, and
\* other values of the gap than config.h sets
TileRects ==
    { [x |-> 0, y |-> MENUBAR, w |-> 1000, h |-> 800],
      [x |-> 0 - 1440, y |-> 0, w |-> 1440, h |-> 900],
      [x |-> 1000, y |-> 0 - 180, w |-> 1919, h |-> 1079] }

TileGaps == {0, gappx, 25}

\* the values setmfact can leave in g_mfact
MfactValues ==
    {MFACT_MIN + MFACT_STEP * k : k \in 0 .. ((MFACT_MAX - MFACT_MIN) \div MFACT_STEP)}

\* the values incnmaster can leave in g_nmaster, up to one per window and one more
NmasterValues == 0 .. (MaxWin + 1)

InitLayout ==
    /\ \E n \in 1 .. MaxMon : \E mi \in 1 .. n :
          monitors = setupmonitors(Displays(n, mi))
    /\ tagset = <<BitsOf(1), BitsOf(1)>>
    /\ seltags = 0
    /\ clients = <<>>
    /\ sel = NULL
    /\ lastsel = NULL
    /\ windowschanged = FALSE
    /\ g_mfact \in MfactValues
    /\ g_nmaster \in NmasterValues
    /\ sellay = LayoutTile
    /\ running = TRUE
    /\ \E opened \in SUBSET Wins :
          wins = [w \in Wins |-> [open |-> (w \in opened)] @@ InitFrame(w)]
    /\ statefile = <<>>
    /\ crashed = FALSE
    /\ steps = 0
    /\ pc = "start"
    /\ inflight = <<>>
    /\ keyq = 0
    /\ timerdue = FALSE

LyScan ==
    /\ Alive
    /\ Step
    /\ \E ub \in UBChoices : Apply(scan(Entry, TRUE, ub))

LyCyclelayout ==
    /\ Alive
    /\ Step
    /\ \E ub \in UBChoices : Apply(cyclelayout(Entry, ub))

LyTogglefloat ==
    /\ Alive
    /\ Step
    /\ \E ub \in UBChoices : Apply(togglefloat(Entry, ub))

LyFocusnext ==
    /\ Alive
    /\ Step
    /\ \E ub \in UBChoices : Apply(focusnext(Entry, ub))

NextLayout ==
    \/ LyScan
    \/ LyCyclelayout
    \/ LyTogglefloat
    \/ LyFocusnext

SpecLayout == InitLayout /\ [][NextLayout]_vars

(***************************************************************************)
(* The monitors of up to MaxDisplays displays: the reconciler, tag and     *)
(* view to spread the clients over the monitors, and the two monitor       *)
(* focus commands.                                                         *)
(***************************************************************************)
InitMon ==
    /\ \E n \in 1 .. MaxDisplays : \E mi \in 1 .. n :
          monitors = setupmonitors(Displays(n, mi))
    /\ tagset = <<BitsOf(1), BitsOf(1)>>
    /\ seltags = 0
    /\ clients = <<>>
    /\ sel = NULL
    /\ lastsel = NULL
    /\ windowschanged = FALSE
    /\ g_mfact = DEFAULT_MFACT
    /\ g_nmaster = DEFAULT_NMASTER
    /\ sellay = LayoutTile
    /\ running = TRUE
    /\ \E opened \in SUBSET Wins :
          wins = [w \in Wins |-> [open |-> (w \in opened)] @@ InitFrame(w)]
    /\ statefile = <<>>
    /\ crashed = FALSE
    /\ steps = 0
    /\ pc = "start"
    /\ inflight = <<>>
    /\ keyq = 0
    /\ timerdue = FALSE

MnScan ==
    /\ Alive
    /\ Step
    /\ \E ub \in UBChoices : Apply(scan(Entry, TRUE, ub))

MnTag ==
    /\ Alive
    /\ Step
    /\ \E a \in TagArgs, ub \in UBChoices : Apply(tag(Entry, a, ub))

MnView ==
    /\ Alive
    /\ Step
    /\ \E a \in TagArgs, ub \in UBChoices : Apply(view(Entry, a, ub))

MnFocusnext ==
    /\ Alive
    /\ Step
    /\ \E ub \in UBChoices : Apply(focusnext(Entry, ub))

MnFocusleftmon ==
    /\ Alive
    /\ Step
    /\ \E ub \in UBChoices : Apply(focusleftmon(Entry, ub))

MnFocusrightmon ==
    /\ Alive
    /\ Step
    /\ \E ub \in UBChoices : Apply(focusrightmon(Entry, ub))

NextMon ==
    \/ MnScan
    \/ MnTag
    \/ MnView
    \/ MnFocusnext
    \/ MnFocusleftmon
    \/ MnFocusrightmon

SpecMon == InitMon /\ [][NextMon]_vars

(***************************************************************************)
(* The reconciler under its timer: the windows open and close and a few    *)
(* commands run, a bounded number of times; the repeating timer comes due  *)
(* for ever and timercallback runs each time it is due.  The window        *)
(* enumeration succeeds in these runs.                                     *)
(***************************************************************************)
TkWindowOpens ==
    /\ Alive
    /\ Step
    /\ \E w \in Wins :
          /\ ~wins[w].open
          /\ wins' = [wins EXCEPT ![w] = [open |-> TRUE] @@ InitFrame(w)]
    /\ UNCHANGED <<monitors, tagset, seltags, clients, sel, lastsel, windowschanged,
                   g_mfact, g_nmaster, sellay, running, statefile, crashed>>

TkWindowCloses ==
    /\ Alive
    /\ Step
    /\ \E w \in Wins :
          /\ wins[w].open
          /\ wins' = [wins EXCEPT ![w] = [open |-> FALSE] @@ InitFrame(w)]
    /\ UNCHANGED <<monitors, tagset, seltags, clients, sel, lastsel, windowschanged,
                   g_mfact, g_nmaster, sellay, running, statefile, crashed>>

TkKillclient ==
    /\ Alive
    /\ Step
    /\ \E ub \in UBChoices : Apply(killclient(Entry, ub))

TkView ==
    /\ Alive
    /\ Step
    /\ \E a \in TagArgs, ub \in UBChoices : Apply(view(Entry, a, ub))

TkCyclelayout ==
    /\ Alive
    /\ Step
    /\ \E ub \in UBChoices : Apply(cyclelayout(Entry, ub))

\* the repeating timer comes due
TkTimerFires ==
    /\ Alive
    /\ ~timerdue
    /\ timerdue' = TRUE
    /\ UNCHANGED <<monitors, tagset, seltags, clients, sel, lastsel, windowschanged,
                   g_mfact, g_nmaster, sellay, running, wins, statefile, crashed,
                   steps, pc, inflight, keyq>>

\* timercallback: scan
TkTimercallback ==
    /\ Alive
    /\ timerdue
    /\ \E ub \in UBChoices : Apply(scan(Entry, TRUE, ub))
    /\ timerdue' = FALSE
    /\ UNCHANGED <<steps, pc, inflight, keyq>>

\* The due timer is served: the step that clears timerdue, which only
\* timercallback takes.
TkServed == Alive /\ timerdue /\ timerdue' = FALSE

NextTick ==
    \/ TkWindowOpens
    \/ TkWindowCloses
    \/ TkKillclient
    \/ TkView
    \/ TkCyclelayout
    \/ TkTimerFires
    \/ TkTimercallback

\* The run loop keeps firing the timer and runs its callback whenever it is
\* due; keys and windows may or may not come.
SpecTick ==
    Init /\ [][NextTick]_vars /\ WF_vars(TkTimerFires) /\ WF_timerdue(TkServed)


(***************************************************************************)
(* The run loop: run() on the main thread, the event tap and the timer on  *)
(* that thread's run loop, the signal handler, cleanup.  A callback is     *)
(* split in its entry and its return, so that what happens while a handler *)
(* is in progress is visible.                                              *)
(***************************************************************************)
\* everything but the event budget and the run loop
wmvars == <<monitors, tagset, seltags, clients, sel, lastsel, windowschanged,
            g_mfact, g_nmaster, sellay, running, wins, statefile, crashed>>

\* the bound keys pressed in these runs
LoopKeys == {"quit", "focuslast", "killclient", "view"}

\* keys[i].func(&keys[i].arg)
KeyHandler(S, key, a, ub) ==
    IF key = "quit" THEN quit(S)
    ELSE IF key = "focuslast" THEN focuslast(S, ub)
    ELSE IF key = "killclient" THEN killclient(S, ub)
    ELSE view(S, a, ub)

\* run(): the timer is created due at once, then the initial scan
LoopInitialScan ==
    /\ pc = "start"
    /\ ~crashed
    /\ \E enumok \in BOOLEAN, ub \in UBChoices : Apply(scan(Entry, enumok, ub))
    /\ pc' = "test"
    /\ timerdue' = TRUE
    /\ UNCHANGED <<steps, inflight, keyq>>

\* the loop test that never sees the flag cleared: while (1)
LoopTest_forever ==
    /\ pc = "test"
    /\ ~crashed
    /\ pc' = "runloop"
    /\ UNCHANGED <<wmvars, steps, inflight, keyq, timerdue>>

\* while (running)
LoopTest ==
    /\ pc = "test"
    /\ ~crashed
    /\ pc' = IF running THEN "runloop" ELSE "cleanup"
    /\ UNCHANGED <<wmvars, steps, inflight, keyq, timerdue>>

\* a key-down event reaches the tap's port
LoopKeyPress ==
    /\ pc \in {"start", "test", "runloop", "callback"}
    /\ ~crashed
    /\ Budget
    /\ keyq' = keyq + 1
    /\ UNCHANGED <<wmvars, pc, inflight, timerdue>>

\* the repeating timer comes due again
LoopTimerTick ==
    /\ pc \in {"test", "runloop", "callback"}
    /\ ~crashed
    /\ ~timerdue
    /\ Budget
    /\ timerdue' = TRUE
    /\ UNCHANGED <<wmvars, pc, inflight, keyq>>

\* sighandler, at any point of the main thread
LoopSignal ==
    /\ pc \in {"start", "test", "runloop", "callback"}
    /\ ~crashed
    /\ running
    /\ running' = FALSE
    /\ UNCHANGED <<monitors, tagset, seltags, clients, sel, lastsel, windowschanged,
                   g_mfact, g_nmaster, sellay, wins, statefile, crashed, steps,
                   loopvars>>

\* a source or timer callback is started only by CFRunLoopRunInMode, which
\* the main thread calls from run() and from nowhere inside a handler
CanDispatch_reentrant == pc \in {"runloop", "callback"}

CanDispatch == pc = "runloop"

\* eventcallback is entered with a bound key and the handler runs
LoopBeginKey ==
    /\ CanDispatch
    /\ ~crashed
    /\ keyq > 0
    /\ \E key \in LoopKeys :
          /\ \E a \in TagArgs, ub \in UBChoices : Apply(KeyHandler(Entry, key, a, ub))
          /\ inflight' = Append(inflight, key)
    /\ keyq' = keyq - 1
    /\ pc' = "callback"
    /\ UNCHANGED <<steps, timerdue>>

\* timercallback is entered and scan runs
LoopBeginTimer ==
    /\ CanDispatch
    /\ ~crashed
    /\ timerdue
    /\ \E enumok \in BOOLEAN, ub \in UBChoices : Apply(scan(Entry, enumok, ub))
    /\ inflight' = Append(inflight, "scan")
    /\ timerdue' = FALSE
    /\ pc' = "callback"
    /\ UNCHANGED <<steps, keyq>>

\* eventcallback returns; a handled source makes CFRunLoopRunInMode return
\* (returnAfterSourceHandled)
LoopEndKey ==
    /\ pc = "callback"
    /\ ~crashed
    /\ inflight # <<>>
    /\ inflight[Len(inflight)] # "scan"
    /\ inflight' = SubSeq(inflight, 1, Len(inflight) - 1)
    /\ pc' = IF Len(inflight) > 1 THEN "callback" ELSE "test"
    /\ UNCHANGED <<wmvars, steps, keyq, timerdue>>

\* timercallback returns; a timer is no source, the run loop goes on waiting
LoopEndTimer ==
    /\ pc = "callback"
    /\ ~crashed
    /\ inflight # <<>>
    /\ inflight[Len(inflight)] = "scan"
    /\ inflight' = SubSeq(inflight, 1, Len(inflight) - 1)
    /\ pc' = IF Len(inflight) > 1 THEN "callback" ELSE "runloop"
    /\ UNCHANGED <<wmvars, steps, keyq, timerdue>>

\* CFRunLoopRunInMode returns after its 0.1 s
LoopTimeout ==
    /\ pc = "runloop"
    /\ ~crashed
    /\ pc' = "test"
    /\ UNCHANGED <<wmvars, steps, inflight, keyq, timerdue>>

\* cleanup: every client is released and freed
LoopCleanup ==
    /\ pc = "cleanup"
    /\ ~crashed
    /\ clients' = <<>>
    /\ sel' = IF sel = NULL THEN NULL ELSE FREED
    /\ lastsel' = IF lastsel = NULL THEN NULL ELSE FREED
    /\ pc' = "done"
    /\ UNCHANGED <<monitors, tagset, seltags, windowschanged, g_mfact, g_nmaster,
                   sellay, running, wins, statefile, crashed, steps, inflight,
                   keyq, timerdue>>

\* the steps the main thread takes by itself: a callback returns, the run
\* loop call times out, the loop test, cleanup
LoopStep ==
    \/ LoopEndKey
    \/ LoopEndTimer
    \/ LoopTimeout
    \/ LoopTest
    \/ LoopCleanup

NextLoop ==
    \/ LoopInitialScan
    \/ LoopBeginKey
    \/ LoopBeginTimer
    \/ LoopStep
    \/ LoopKeyPress
    \/ LoopTimerTick
    \/ LoopSignal

\* The main thread is scheduled as long as it has a step to take; what the
\* run loop has to dispatch may wait.
SpecLoop ==
    Init /\ [][NextLoop]_vars /\ WF_vars(LoopInitialScan) /\ WF_vars(LoopStep)

(***************************************************************************)
(* Properties.                                                             *)
(***************************************************************************)
\* the state the next handler starts from, after a handler returned R
Rest(R) == [R EXCEPT !.arranged = FALSE]

ClientWins(cs) == {cs[k].win : k \in 1 .. Len(cs)}

\* C1: a toggleview whose XOR result is empty or disjoint from the target
\* monitor's owned tags changes nothing at all; any other toggleview leaves
\* that monitor's active mask equal to the XOR result, which is non-empty and
\* meets the monitor's owned tags.
C1_ToggleviewRejectsEmptyOrDisjoint ==
    \A a \in TagArgs, ub \in UBChoices :
        LET R == toggleview(State, a, ub)
            m == getmonitorbytags(State, a \cap TAGMASK)
            x == XorTags(ActiveTags(monitors[m]), a \cap TAGMASK)
        IN \/ R.crashed
           \/ IF x = {} \/ x \cap monitors[m].tags = {}
              THEN R = State
              ELSE /\ ActiveTags(R.monitors[m]) = x
                   /\ ActiveTags(R.monitors[m]) # {}
                   /\ ActiveTags(R.monitors[m]) \cap R.monitors[m].tags # {}

\* a toggleview has committed a second tag on a monitor that shows clients
C1_Witness ==
    /\ clients # <<>>
    /\ \E i \in 1 .. Len(monitors) : Cardinality(ActiveTags(monitors[i])) >= 2

\* C2: every monitor's active tag mask is a subset of the tags it owns.
C2_ActiveSubsetOfOwned ==
    \A i \in 1 .. Len(monitors) : ActiveTags(monitors[i]) \subseteq monitors[i].tags

\* C3: a view of the mask a view has just switched to is a complete no-op:
\* no slot, no selector, no selection, no flag and no frame changes and
\* arrange does not run.
C3_ViewTwiceIsNoop ==
    \A a \in TagArgs, ub \in UBChoices :
        LET R1 == view(State, a, ub)
        IN \/ R1.crashed
           \/ \A ub2 \in UBOutcomes : view(Rest(R1), a, ub2) = Rest(R1)

\* a view has flipped the history of a monitor while clients are managed
C3_Witness ==
    /\ clients # <<>>
    /\ \E i \in 1 .. Len(monitors) :
          monitors[i].seltags = 1 /\ monitors[i].tagset[1] # monitors[i].tagset[2]

\* C4: every managed client's tag mask is non-empty.
C4_TagsNeverEmpty ==
    \A k \in 1 .. Len(clients) : clients[k].tags # {}

\* tag has moved a client off the default tag and manage has restored a client
\* from the state file
C4_Witness ==
    /\ \E k \in 1 .. Len(clients) : clients[k].tags # BitsOf(1)
    /\ statefile # <<>>
    /\ Len(clients) >= 2

\* C5: selected is none or a client of the registry.
C5_SelectedIsLive ==
    sel = NULL \/ sel \in ClientWins(clients)

\* C6: after a reconcile pass the registry holds exactly one entry per live
\* window and none for a closed one.
C6_RegistryMatchesLiveWindows ==
    \A ub \in UBChoices :
        LET R == scan(State, TRUE, ub)
        IN \/ R.crashed
           \/ \A w \in Wins :
                 Cardinality({k \in 1 .. Len(R.clients) : R.clients[k].win = w})
                    = IF wins[w].open THEN 1 ELSE 0

\* C7: a reconcile pass right after a reconcile pass, the windows unchanged,
\* adds nothing, removes nothing and does not re-arrange.
C7_ScanTwiceStable ==
    \A ub \in UBChoices :
        LET R1 == scan(State, TRUE, ub)
            R2 == scan(Rest(R1), TRUE, ub)
        IN \/ R1.crashed
           \/ R2.crashed
           \/ /\ [k \in 1 .. Len(R2.clients) |-> R2.clients[k].win]
                 = [k \in 1 .. Len(R1.clients) |-> R1.clients[k].win]
              /\ ~R2.arranged

C9_SetlayoutOutOfRangeNoChange ==
    \A i \in {0 - 1, LayoutLast}, ub \in UBChoices :
        LET R == setlayout(State, i, ub)
        IN \/ R.crashed
           \/ /\ R.sellay = sellay
              /\ R.windowschanged = windowschanged
              /\ R.sel = sel
              /\ R.lastsel = lastsel
              /\ R.wins = wins
              /\ R.clients = clients

\* C10: under each layout, a second arrange right after an arrange leaves
\* every window's frame, every cached frame, selected and lastSelected as the
\* first left them.
C10_ArrangeIdempotent ==
    \A lay \in LayoutTile .. (LayoutLast - 1), ub \in UBChoices :
        LET R1 == arrange([State EXCEPT !.sellay = lay], ub)
            R2 == arrange(R1, ub)
        IN \/ R1.crashed
           \/ /\ R2.wins = R1.wins
              /\ R2.clients = R1.clients
              /\ R2.sel = R1.sel
              /\ R2.lastsel = R1.lastsel

\* an arrange has hidden one client and laid out another
C10_Witness ==
    /\ \E k \in 1 .. Len(clients) :
          wins[clients[k].win].open /\ wins[clients[k].win].x = OFFSCREEN
    /\ \E k \in 1 .. Len(clients) :
          /\ wins[clients[k].win].open
          /\ wins[clients[k].win].x # OFFSCREEN
          /\ clients[k].frame # InitFrame(clients[k].win)

\* C11: once savestate has written the registry, a window of the same
\* application as any client c that is managed afterwards (c's own window
\* closed and opened again, or another window of that application) is created
\* with exactly c's tags and floating flag.
C11_PersistenceRoundTrip ==
    LET R == savestate(State)
    IN \A k \in 1 .. Len(clients) :
          LET c  == clients[k]
              R1 == unmanage(R, k)
          IN \A w \in Wins \ ClientWins(R1.clients) :
                AppName(WinPid(w)) = AppName(c.pid)
                   => LET n == manage(R1, w).clients[1]
                      IN n.tags = c.tags /\ n.isfloating = c.isfloating

\* C12 (as amended): on a 1000x800 monitor rectangle with gap 10, master
\* count 1 and master fraction 0.55, tile gives the first of two visible
\* tiled clients width 533 and the second width 437, both height 780, the
\* pair inset by 10 from every edge of the rectangle and from each other.
C12_TileScenario ==
    \A i \in 1 .. Len(monitors) :
        LET m   == monitors[i]
            idx == TiledFrom(State, m, 1)
            R   == TilePlace(State, m, idx, 0)
        IN (/\ m.rect.w = 1000 /\ m.rect.h = 800 /\ gappx = 10
            /\ g_nmaster = 1 /\ g_mfact = 55 /\ Len(idx) = 2)
           => /\ R.clients[idx[1]].frame =
                    [x |-> m.rect.x + 10, y |-> m.rect.y + 10, w |-> 533, h |-> 780]
              /\ R.clients[idx[2]].frame =
                    [x |-> m.rect.x + 553, y |-> m.rect.y + 10, w |-> 437, h |-> 780]
              /\ m.rect.x + 553 + 437 = m.rect.x + m.rect.w - 10

\* two tiled clients lie arranged on such a monitor
C12_Witness ==
    /\ sellay = LayoutTile /\ g_nmaster = 1 /\ g_mfact = 55
    /\ \E i \in 1 .. Len(monitors) :
          LET idx == TiledFrom(State, monitors[i], 1)
          IN /\ Len(idx) = 2
             /\ clients[idx[1]].frame.w = 533
             /\ clients[idx[2]].frame.w = 437
             /\ wins[clients[idx[1]].win].w = 533
             /\ wins[clients[idx[2]].win].w = 437

\* C12 as stated: in that scenario the master client is 544 wide and the
\* stack client 426 wide, both 780 high.
C12_TileScenarioAsStated ==
    \A i \in 1 .. Len(monitors) :
        LET m   == monitors[i]
            idx == TiledFrom(State, m, 1)
            R   == TilePlace(State, m, idx, 0)
        IN (/\ m.rect.w = 1000 /\ m.rect.h = 800 /\ gappx = 10
            /\ g_nmaster = 1 /\ g_mfact = 55 /\ Len(idx) = 2)
           => /\ R.clients[idx[1]].frame.w = 544
              /\ R.clients[idx[2]].frame.w = 426
              /\ R.clients[idx[1]].frame.h = 780
              /\ R.clients[idx[2]].frame.h = 780

\* C13: with a selected client of the registry, focusnext selects the
\* nearest visible client after it in cyclic registry order (wrapping from
\* the end to the start, passing over clients that are not visible) and
\* remembers the old selection as lastsel; with no other visible client, or
\* nothing selected, it changes nothing.
C13_FocusnextNextVisible ==
    \A ub \in UBChoices :
        LET n      == Len(clients)
            k      == IndexOf(State, sel)
            at(d)  == ((k - 1 + d) % n) + 1
            hit(d) == isvisible(State, clients[at(d)])
            R      == focusnext(State, ub)
        IN IF sel = NULL THEN R = State
           ELSE (sel # FREED)
                => IF \E d \in 1 .. (n - 1) : hit(d)
                   THEN LET d == CHOOSE e \in 1 .. (n - 1) :
                                    hit(e) /\ \A j \in 1 .. (e - 1) : ~hit(j)
                        IN R = [State EXCEPT !.sel = clients[at(d)].win,
                                             !.lastsel = sel]
                   ELSE R = State

\* the selected client is the last of three, the first is not visible and the
\* second is: focusnext has to wrap and to skip
C13_Witness ==
    /\ Len(clients) = 3
    /\ sel = clients[3].win
    /\ ~isvisible(State, clients[1])
    /\ isvisible(State, clients[2])
    /\ focusnext(State, "hidden").sel = clients[2].win

\* C14: togglefloat on a selected tiled client flips that client's floating
\* flag and nothing else of it (its cached frame and tags stay); no other
\* client's tags or floating flag change; and under the tile layout the other
\* clients are given the slots of a tiling that does not count it.
C14_TogglefloatExcludesFromTile ==
    \A ub \in UBChoices :
        LET k == IndexOf(State, sel)
            R == togglefloat(State, ub)
            others == (1 .. Len(clients)) \ {k}
            T(m) == {j \in others : /\ isvisible(State, clients[j])
                                    /\ clients[j].isfloating = 0
                                    /\ clients[j].tags \cap m.tags # {}}
        IN (sel # NULL /\ sel # FREED /\ clients[k].isfloating = 0)
           => /\ Len(R.clients) = Len(clients)
              /\ R.clients[k] = [clients[k] EXCEPT !.isfloating = 1]
              /\ \A j \in others :
                    /\ R.clients[j].tags = clients[j].tags
                    /\ R.clients[j].isfloating = clients[j].isfloating
                    /\ R.clients[j].win = clients[j].win
              /\ sellay = LayoutTile
                    => \A j \in others :
                          LET ms == {i \in 1 .. Len(monitors) : j \in T(monitors[i])}
                          IN IF ms = {} THEN R.clients[j].frame = clients[j].frame
                             ELSE LET i == CHOOSE x \in ms : \A y \in ms : y <= x
                                      m == monitors[i]
                                  IN R.clients[j].frame =
                                        TileSlot(m.rect, Cardinality(T(m)),
                                                 Cardinality({x \in T(m) : x < j}),
                                                 g_mfact, g_nmaster, gappx)

\* the selected client has been floated out of a tiling of two: it keeps the
\* frame of its old slot and the other client fills the monitor
C14_Witness ==
    /\ sellay = LayoutTile /\ g_nmaster = 1
    /\ Len(clients) = 2
    /\ sel = clients[1].win
    /\ clients[1].isfloating = 1
    /\ clients[1].frame.w = 533
    /\ clients[2].isfloating = 0
    /\ clients[2].frame.w = 980
    /\ statefile # <<>>

\* C15: swapnext (swapprev) on a selected tiled client with a visible
\* non-floating client after (before) it exchanges the two clients' places in
\* the registry order tile walks.
C15_SwapExchangesPlaces ==
    \A ub \in UBChoices :
        LET k     == IndexOf(State, sel)
            after == TiledIn(State, (k + 1) .. Len(clients))
            befor == TiledIn(State, 1 .. (k - 1))
            Rn    == swapnext(State, ub)
            Rp    == swapprev(State, ub)
        IN (sel # NULL /\ sel # FREED /\ clients[k].isfloating = 0
              /\ isvisible(State, clients[k]))
           => /\ after # {}
                 => LET j == CHOOSE x \in after : \A y \in after : x <= y
                    IN /\ Rn.clients[k].win = clients[j].win
                       /\ Rn.clients[j].win = clients[k].win
              /\ befor # {}
                 => LET j == CHOOSE x \in befor : \A y \in befor : y <= x
                    IN /\ Rp.clients[k].win = clients[j].win
                       /\ Rp.clients[j].win = clients[k].win

\* C16: a window that is managed with no rule tag and no persisted state for
\* its application gets as tags the active tag mask of a monitor (the one it
\* belongs to).
C16_NewClientGetsActiveTags ==
    \A w \in Wins \ ClientWins(clients) :
        LET app == AppName(WinPid(w))
            r   == MatchRule(rules, app)
        IN (/\ wins[w].open
            /\ (r = 0 \/ rules[r].tags = {})
            /\ ~restorestate(statefile, app).found)
           => \E i \in 1 .. Len(monitors) :
                 manage(State, w).clients[1].tags = ActiveTags(monitors[i])

\* C17: the status summary emitted by a view(1 << k) that re-arranges carries
\* the tag number k + 1.
C17_StatusCarriesViewedTag ==
    \A a \in TagArgs, ub \in UBChoices :
        LET R == view(State, a, ub)
            k == CHOOSE x \in a : TRUE
        IN \/ R.crashed
           \/ ~R.arranged
           \/ updatestatusbar(R).tag = k + 1

\* C18: at most one handler (a key command or a reconcile pass) is in
\* progress at any time, and one is in progress exactly while the main thread
\* is inside a callback: none starts while another is part-way.
C18_HandlersSerialized ==
    /\ Len(inflight) <= 1
    /\ (inflight # <<>>) <=> (pc = "callback")

\* a handler is part-way while a key event and a timer firing both wait
C18_Witness ==
    /\ Len(inflight) = 1
    /\ keyq > 0
    /\ timerdue

\* C19: quit only clears the running flag; clearing the flag (by quit or by
\* a signal) cancels no handler: one in flight returns; the loop then exits
\* and cleanup runs, unless the process has died; and once the loop has
\* exited the registry is empty and no handler runs any more.
C19_QuitLeadsToExit ==
    /\ [](quit(State) = [State EXCEPT !.running = FALSE])
    /\ ((inflight # <<>>) ~> (inflight = <<>> \/ crashed))
    /\ ((~running) ~> (pc = "done" \/ crashed))
    /\ [](pc = "done" => (clients = <<>> /\ inflight = <<>>))
    /\ [][pc = "done" => UNCHANGED <<wmvars, pc, inflight>>]_vars

\* the loop has exited after a stop request, with windows still open whose
\* clients cleanup has released
C19_Witness ==
    /\ pc = "done"
    /\ ~running
    /\ clients = <<>>
    /\ \E w \in Wins : wins[w].open
    /\ steps > 0

\* C20: view(b) on the monitor that owns b, while that monitor shows another
\* mask a, flips the monitor's selector: the slot now active holds b, the
\* other slot holds a, a following view(a) shows a again, the selector is 0
\* or 1, and every other monitor is as it was.
C20_ViewFlipsHistory ==
    \A b \in TagArgs, ub \in UBChoices :
        LET i == getmonitorbytags(State, b)
            m == monitors[i]
            a == ActiveTags(m)
            R == view(State, b, ub)
            n == R.monitors[i]
            B == view(Rest(R), a, ub)
        IN (a # b)
           => \/ R.crashed
              \/ /\ n.seltags = 1 - m.seltags
                 /\ n.seltags \in {0, 1}
                 /\ n.tagset[n.seltags + 1] = b \cap TAGMASK
                 /\ n.tagset[m.seltags + 1] = a
                 /\ n.tags = m.tags /\ n.rect = m.rect
                 /\ \A j \in 1 .. Len(monitors) : j # i => R.monitors[j] = monitors[j]
                 /\ Len(R.monitors) = Len(monitors)
                 /\ (B.crashed \/ ActiveTags(B.monitors[i]) = a)

\* a monitor has been switched away from its first tag and a second monitor
\* is present: the selector is flipped and the first tag sits in the other slot
C20_Witness ==
    /\ Len(monitors) = 2
    /\ \E i \in 1 .. 2 :
          /\ monitors[i].seltags = 1
          /\ monitors[i].tagset[1] # monitors[i].tagset[2]
          /\ monitors[i].tagset[2] \subseteq monitors[i].tags
    /\ clients # <<>>

\* C21: unmanage of the selected client leaves selected on the new head of
\* the registry, or on none when the registry became empty; unmanage of any
\* other client leaves selected as it was.  The same holds of a whole
\* reconciler pass that manages no new window: if it removed the selected
\* client, selected is the head of what is left (or none), and if not,
\* selected is unchanged.
C21_RemovalReassignsSelected ==
    /\ \A k \in 1 .. Len(clients) :
          LET R == unmanage(State, k)
          IN /\ R.clients = detach(clients, k)
             /\ IF sel = clients[k].win
                THEN R.sel = IF R.clients = <<>> THEN NULL ELSE R.clients[1].win
                ELSE R.sel = sel
    /\ LET R == updateclients(State, TRUE)
       IN ClientWins(R.clients) \subseteq ClientWins(clients)
          => IF sel \in ClientWins(clients) \ ClientWins(R.clients)
             THEN R.sel = IF R.clients = <<>> THEN NULL ELSE R.clients[1].win
             ELSE R.sel = sel

\* the selected client is not the head, its window is closed and a pass of
\* the reconciler is about to remove it and move selected to the head
C21_Witness ==
    /\ Len(clients) >= 2
    /\ sel = clients[2].win
    /\ ~wins[sel].open
    /\ LET R == updateclients(State, TRUE)
       IN /\ sel \notin ClientWins(R.clients)
          /\ R.clients # <<>>
          /\ R.sel = R.clients[1].win
          /\ R.sel # sel

\* C22: manage of a window that has no client puts the new client at the
\* head of the registry, leaves the earlier clients behind it in their order
\* and otherwise as they were, makes the new client selected, and makes the
\* client selected before (if there was one) lastsel; with none selected
\* before, lastsel keeps its value.
C22_ManagePrependsAndSelects ==
    \A w \in Wins \ ClientWins(clients) :
        LET R == manage(State, w)
        IN (wins[w].open /\ sel # FREED)
           => /\ Len(R.clients) = Len(clients) + 1
              /\ R.clients[1].win = w
              /\ Tail(R.clients) = clients
              /\ R.sel = w
              /\ R.lastsel = IF sel # NULL THEN sel ELSE lastsel

\* the reconciler has managed two windows, the later one is head and selected
\* and the earlier one lastsel, and a third window is open and not yet managed
C22_Witness ==
    /\ Len(clients) = 2
    /\ sel = clients[1].win
    /\ lastsel = clients[2].win
    /\ \E w \in Wins \ ClientWins(clients) :
          /\ wins[w].open
          /\ manage(State, w).lastsel = sel
          /\ manage(State, w).clients[2].win = sel

\* C23: with lastsel none or a client of the registry, focuslast changes
\* nothing unless lastsel is a visible client; when it is, lastsel becomes
\* selected and the old selected becomes lastsel; and with selected and
\* lastsel both visible clients of the registry, a second focuslast restores
\* the pair the first started from.
C23_FocuslastSwapsPair ==
    \A ub \in UBChoices :
        LET R  == focuslast(State, ub)
            R2 == focuslast(Rest(R), ub)
        IN (lastsel # FREED)
           => /\ IF lastsel # NULL /\ isvisible(State, clients[IndexOf(State, lastsel)])
                 THEN R = [State EXCEPT !.sel = lastsel,
                                        !.lastsel = IF sel # NULL THEN sel ELSE lastsel]
                 ELSE R = State
              /\ (/\ lastsel # NULL /\ sel # NULL /\ sel # FREED
                  /\ isvisible(State, clients[IndexOf(State, lastsel)])
                  /\ isvisible(State, clients[IndexOf(State, sel)]))
                 => (R2.sel = sel /\ R2.lastsel = lastsel /\ R2 = State)

\* two visible clients, one selected and the other lastsel, a third client
\* hidden: focuslast exchanges the two
C23_Witness ==
    /\ Len(clients) = 3
    /\ sel \in ClientWins(clients)
    /\ lastsel \in ClientWins(clients)
    /\ sel # lastsel
    /\ isvisible(State, clients[IndexOf(State, sel)])
    /\ isvisible(State, clients[IndexOf(State, lastsel)])
    /\ \E k \in 1 .. 3 : ~isvisible(State, clients[k])
    /\ focuslast(State, "hidden").sel = lastsel
    /\ focuslast(State, "hidden").lastsel = sel

C25_ZeroMasterAllStack ==
    (g_nmaster = 0)
    => \A m \in 1 .. Len(monitors) :
          LET rect == monitors[m].rect
              idx  == TiledFrom(State, monitors[m], 1)
              n    == Len(idx)
              R    == TilePlace(State, monitors[m], idx, 0)
              mw   == ((rect.w - 3 * gappx) * g_mfact) \div 100
              sh   == (rect.h - (n + 1) * gappx) \div n
          IN n >= 1
             => /\ \A p \in 1 .. n :
                      R.clients[idx[p]].frame =
                         [x |-> rect.x + 2 * gappx + mw,
                          y |-> rect.y + gappx + (p - 1) * (sh + gappx),
                          w |-> rect.w - mw - 3 * gappx, h |-> sh]
                /\ ~TileUndefined(n, g_nmaster)

C27_HideBeforeLayout ==
    \A lay \in LayoutTile .. (LayoutLast - 1), ub \in UBChoices :
        LET S0 == [State EXCEPT !.sellay = lay]
            H  == HideFrom(S0, 1)
            L  == layouts(H)
            R  == arrange(S0, ub)
        IN /\ H.clients = clients
           /\ \A k \in 1 .. Len(clients) :
                 LET c == clients[k]
                 IN IF isvisible(State, c)
                    THEN H.wins[c.win] = wins[c.win]
                    ELSE wins[c.win].open
                         => H.wins[c.win] = [wins[c.win] EXCEPT !.x = OFFSCREEN,
                                                                !.y = OFFSCREEN]
           /\ \/ R.crashed
              \/ /\ R.wins = L.wins
                 /\ R.clients = L.clients
                 /\ \A k \in 1 .. Len(clients) :
                       LET c == clients[k]
                       IN wins[c.win].open
                          => IF isvisible(State, c)
                             THEN (R.wins[c.win].x = OFFSCREEN => wins[c.win].x = OFFSCREEN)
                             ELSE R.wins[c.win].x = OFFSCREEN /\ R.wins[c.win].y = OFFSCREEN

\* under the floating layout a client moved to another tag lies off screen
\* and a visible client lies on screen
C27_Witness ==
    /\ sellay = LayoutFloat
    /\ \E k \in 1 .. Len(clients) :
          /\ ~isvisible(State, clients[k])
          /\ wins[clients[k].win].open
          /\ wins[clients[k].win].x = OFFSCREEN
          /\ wins[clients[k].win].y = OFFSCREEN
    /\ \E k \in 1 .. Len(clients) :
          /\ isvisible(State, clients[k])
          /\ wins[clients[k].win].open
          /\ wins[clients[k].win].x # OFFSCREEN

\* C28: the client manage creates for a window gets, whatever the rules
\* table: the default tag and not floating; then, from the first rule whose
\* app is a substring of the application name and from no later one, the
\* rule's tags if they are not zero and the rule's floating flag in any case;
\* then, if the state file has an entry for the application name, that
\* entry's tags and floating flag, which so win over the rule's.
C28_ManageOverrideOrder ==
    \A rs \in RuleTables, w \in Wins \ ClientWins(clients) :
        LET app    == AppName(WinPid(w))
            n      == newclient(State, w, rs)
            hits   == {i \in 1 .. Len(rs) : strstr(app, rs[i].app)}
            first  == CHOOSE i \in hits : \A j \in hits : i <= j
            dflt   == tagset[seltags + 1]
            rtags  == IF hits # {} /\ rs[first].tags # {} THEN rs[first].tags ELSE dflt
            rfloat == IF hits # {} THEN rs[first].isfloating ELSE 0
            saved  == {k \in 1 .. Len(statefile) : statefile[k].app = app}
            sv     == restorestate(statefile, app)
        IN wins[w].open
           => /\ sv.found = (saved # {})
              /\ IF saved # {}
                 THEN /\ n.tags = sv.tags
                      /\ n.isfloating = sv.floating
                      /\ \E k \in saved : /\ MaskOf(n.tags) = statefile[k].tags
                                          /\ n.isfloating = statefile[k].floating
                 ELSE /\ n.tags = rtags
                      /\ n.isfloating = rfloat
              /\ manage(State, w).clients[1] = newclient(State, w, rules)

\* a window is open and not yet managed, the state file has an entry for its
\* application with a tag other than the default, and a rules table gives
\* that application, by the first of two matching rules, another floating
\* flag than the entry's: the entry wins
C28_Witness ==
    \E w \in Wins \ ClientWins(clients), rs \in RuleTables :
        LET app  == AppName(WinPid(w))
            sv   == restorestate(statefile, app)
            hits == {i \in 1 .. Len(rs) : strstr(app, rs[i].app)}
        IN /\ wins[w].open
           /\ sv.found
           /\ sv.tags # tagset[seltags + 1]
           /\ Cardinality(hits) = 2
           /\ \E i \in hits : \A j \in hits : i <= j /\ rs[i].isfloating # sv.floating
           /\ newclient(State, w, rs).tags = sv.tags
           /\ newclient(State, w, rs).isfloating = sv.floating

\* C29: a reconcile pass runs arrange if and only if the number of clients
\* after updateclients differs from the number before or windowschanged was
\* set when the pass began; when it runs arrange the flag is clear afterwards;
\* when it does not, the pass is updateclients alone: no window is moved or
\* resized, no cached frame of a client that stays is changed, and the flag
\* is left as it was.
C29_ScanArrangesIffChanged ==
    \A enumok \in BOOLEAN, ub \in UBChoices :
        LET U == updateclients(State, enumok)
            R == scan(State, enumok, ub)
            trigger == Len(U.clients) # Len(clients) \/ windowschanged
        IN \/ R.crashed
           \/ /\ R.arranged = trigger
              /\ trigger => /\ ~R.windowschanged
                            /\ R = [arrange(U, ub) EXCEPT !.windowschanged = FALSE]
              /\ ~trigger => /\ R = U
                             /\ R.wins = wins
                             /\ R.windowschanged = windowschanged
                             /\ \A k \in 1 .. Len(R.clients) :
                                   \A j \in 1 .. Len(clients) :
                                      clients[j].win = R.clients[k].win
                                      => R.clients[k].frame = clients[j].frame

\* a command has raised windowschanged, every client's window is still there
\* and no other window is open, so the count will not change: the pass
\* re-arranges for the flag alone and clears it
C29_Witness ==
    /\ windowschanged
    /\ Len(clients) >= 2
    /\ Len(updateclients(State, TRUE).clients) = Len(clients)
    /\ scan(State, TRUE, "hidden").arranged
    /\ ~scan(State, TRUE, "hidden").windowschanged
    /\ sel \in ClientWins(clients)

\* C30: tag with nothing selected or with an argument that has no bit inside
\* TAGMASK changes nothing, the state file included.  With a client of the
\* registry selected and a masked argument that is not empty, tag sets that
\* client's tags to exactly the masked argument and changes no other
\* client's tags, no floating flag and not the registry order; it raises
\* windowschanged and runs arrange on the result; it writes the state file,
\* one entry per client with the client's new tags and floating flag; and it
\* leaves selected on the first client in registry order that is visible
\* under the new tags (on the client arrange left selected, if none is).
C30_TagMovesSelected ==
    \A a \in TagArgs \cup {NoTagArg}, ub \in UBChoices :
        LET R  == tag(State, a, ub)
            k  == IndexOf(State, sel)
            t  == a \cap TAGMASK
            S1 == [State EXCEPT !.clients[k].tags = t, !.windowschanged = TRUE]
            A  == arrange(S1, ub)
            fv == FirstVisible(S1)
        IN IF sel = NULL \/ t = {}
           THEN R = State
           ELSE (sel # FREED)
                => /\ Len(R.clients) = Len(clients)
                   /\ R.clients[k].tags = t
                   /\ \A j \in 1 .. Len(clients) :
                         /\ R.clients[j].win = clients[j].win
                         /\ R.clients[j].isfloating = clients[j].isfloating
                         /\ j # k => R.clients[j].tags = clients[j].tags
                   /\ R.arranged
                   /\ R.windowschanged
                   /\ R.wins = A.wins
                   /\ R.clients = A.clients
                   /\ R.monitors = monitors
                   /\ Len(R.statefile) = Len(clients)
                   /\ \A j \in 1 .. Len(clients) :
                         R.statefile[j] = [app |-> AppName(clients[j].pid),
                                           tags |-> MaskOf(R.clients[j].tags),
                                           floating |-> clients[j].isfloating]
                   /\ R.sel = IF fv # NULL THEN fv ELSE A.sel

\* tag has moved the selected client to a tag no monitor shows: it lies off
\* screen, the state file holds its new tags, and the first visible client
\* of the registry is selected
C30_Witness ==
    /\ Len(clients) = 3
    /\ windowschanged
    /\ Len(statefile) = 3
    /\ \E k \in 1 .. 3 :
          /\ clients[k].tags = {KeyBit(3)}
          /\ ~isvisible(State, clients[k])
          /\ wins[clients[k].win].x = OFFSCREEN
          /\ statefile[k].tags = MaskOf({KeyBit(3)})
          /\ lastsel = clients[k].win
    /\ sel = FirstVisible(State)
    /\ sel # NULL

\* C31: a reconcile pass whose window enumeration fails changes nothing: no
\* registry entry is marked stale, added or removed, selected and
\* lastSelected stay, also through the rest of the tick (selected not
\* dangling); and where the tick moved no window, a successful tick after it
\* ends with the registry a successful tick in its place would have ended with.
C31_FailedEnumerationSkipsPass ==
    /\ updateclients(State, FALSE) = State
    /\ \A ub \in UBChoices :
          LET R1 == scan(State, FALSE, ub)
              R2 == scan(Rest(R1), TRUE, ub)
              D  == scan(State, TRUE, ub)
              ws(cs) == [k \in 1 .. Len(cs) |-> cs[k].win]
          IN \/ R1.crashed
             \/ sel = FREED
             \/ /\ R1.clients = clients
                /\ R1.sel = sel
                /\ R1.lastsel = lastsel
                /\ (R1.wins = wins /\ ~R2.crashed /\ ~D.crashed)
                      => ws(R2.clients) = ws(D.clients)

\* A failing tick in a state where a successful one would remove a client and
\* add another, the flag raised by an earlier command: the tick re-arranges
\* and the registry and the selection stay as they were.
C31_Witness ==
    /\ sel \in ClientWins(clients)
    /\ lastsel \in ClientWins(clients)
    /\ windowschanged
    /\ \E k \in 1 .. Len(clients) : ~wins[clients[k].win].open
    /\ \E w \in Wins : wins[w].open /\ w \notin ClientWins(clients)
    /\ scan(State, FALSE, "hidden").arranged
    /\ scan(State, FALSE, "hidden").clients = clients
    /\ Len(scan(State, TRUE, "hidden").clients) = Len(clients)
    /\ ClientWins(scan(State, TRUE, "hidden").clients) # ClientWins(clients)

\* C32: focusleftmon / focusrightmon take, among the monitors whose origin x
\* is strictly less / greater than that of the monitor getmonitorbytags gives
\* for the selected client's tags, the one with the nearest origin, and select
\* the first visible client in registry order whose tags meet that monitor's
\* owned tags; with nothing selected, fewer than two monitors, no such monitor
\* or no such client the command changes nothing.
C32_FocusMonitorNearest ==
    \A dir \in {0 - 1, 1} :
        LET R     == IF dir = 1 THEN focusrightmon(State, "hidden")
                     ELSE focusleftmon(State, "hidden")
            n     == Len(monitors)
            own   == IF sel \in ClientWins(clients)
                     THEN getmonitorbytags(State, clients[IndexOf(State, sel)].tags)
                     ELSE 1
            x(i)  == monitors[i].rect.x
            side  == {i \in 1 .. n : IF dir = 1 THEN x(i) > x(own) ELSE x(i) < x(own)}
            dist(i) == IF x(i) > x(own) THEN x(i) - x(own) ELSE x(own) - x(i)
            near  == {i \in side : \A j \in side : dist(i) <= dist(j)}
            on(t) == {k \in 1 .. Len(clients) :
                         /\ \E i \in 1 .. n : clients[k].tags \cap ActiveTags(monitors[i]) # {}
                         /\ clients[k].tags \cap monitors[t].tags # {}}
            first(t) == CHOOSE k \in on(t) : \A j \in on(t) : k <= j
        IN sel # FREED =>
              IF sel = NULL \/ n < 2 \/ side = {} \/ \A t \in near : on(t) = {}
              THEN R = State
              ELSE \E t \in near :
                      /\ on(t) # {}
                      /\ R.sel = clients[first(t)].win
                      /\ R.lastsel = IF R.sel # sel THEN sel ELSE lastsel
                      /\ [R EXCEPT !.sel = sel, !.lastsel = lastsel] = State

\* Three monitors, the selected client's monitor leftmost, a visible client
\* on each of the two monitors to its right: focusrightmon selects a client
\* of the nearer one, and a client of the farther one is passed over.
C32_Witness ==
    /\ Len(monitors) = 3
    /\ sel \in ClientWins(clients)
    /\ LET own  == getmonitorbytags(State, clients[IndexOf(State, sel)].tags)
           R    == focusrightmon(State, "hidden")
           side == {i \in 1 .. 3 : monitors[i].rect.x > monitors[own].rect.x}
       IN /\ Cardinality(side) = 2
          /\ R.sel # sel
          /\ R.lastsel = sel
          /\ \E t \in side, k \in 1 .. Len(clients) :
                /\ \A j \in side : monitors[j].rect.x <= monitors[t].rect.x
                /\ isvisible(State, clients[k])
                /\ clients[k].tags \cap monitors[t].tags # {}
                /\ clients[k].win # R.sel
                /\ clients[IndexOf(State, R.sel)].tags \cap monitors[t].tags = {}

\* C33: whatever the number of displays, the owned tag sets setupmonitors
\* assigns are pairwise disjoint and together cover all nine tags.
C33_OwnedTagsPartition ==
    /\ \A i, j \in 1 .. Len(monitors) :
          i # j => monitors[i].tags \cap monitors[j].tags = {}
    /\ UNION {monitors[i].tags : i \in 1 .. Len(monitors)} = TAGMASK

\* C34: lastSelected is none or a client of the registry, so focuslast never
\* reads a client the reconciler has removed.
C34_LastSelectedIsLive ==
    lastsel = NULL \/ lastsel \in ClientWins(clients)

\* C35: if at least one managed client is visible, the selected client is a
\* visible client of the registry.
C35_SelectedIsVisible ==
    (\E k \in 1 .. Len(clients) : isvisible(State, clients[k]))
        => /\ sel \in ClientWins(clients)
           /\ isvisible(State, clients[IndexOf(State, sel)])

\* C36: after a re-arrange under tile or monocle every visible non-floating
\* client has been given geometry by exactly one monitor, and that geometry
\* lies inside that monitor's rectangle.
C36_OneMonitorPlacesEachClient ==
    \A ub \in UBChoices :
        LET R == arrange(State, ub)
            placing(k) == {i \in 1 .. Len(R.monitors) :
                              R.clients[k].tags \cap R.monitors[i].tags # {}}
            inside(f, r) == /\ f.x >= r.x /\ f.x + f.w <= r.x + r.w
                            /\ f.y >= r.y /\ f.y + f.h <= r.y + r.h
        IN \/ R.crashed
           \/ sellay = LayoutFloat
           \/ \A k \in 1 .. Len(R.clients) :
                 (isvisible(R, R.clients[k]) /\ R.clients[k].isfloating = 0)
                    => /\ Cardinality(placing(k)) = 1
                       /\ \A i \in placing(k) :
                             inside(R.clients[k].frame, R.monitors[i].rect)

\* C37: no client that is visible after a re-arrange is left at the
\* off-screen position, whatever the layout and the client's floating flag.
C37_VisibleIsOnScreen ==
    \A ub \in UBChoices :
        LET R == arrange(State, ub)
        IN \/ R.crashed
           \/ \A k \in 1 .. Len(R.clients) :
                 (isvisible(R, R.clients[k]) /\ R.wins[R.clients[k].win].open)
                    => ~(/\ getframe(R, R.clients[k].win).x = OFFSCREEN
                         /\ getframe(R, R.clients[k].win).y = OFFSCREEN)

C39_TicksConverge ==
    \A w \in Wins :
        /\ (~wins[w].open /\ w \in ClientWins(clients))
              ~> (wins[w].open \/ w \notin ClientWins(clients) \/ ~Alive)
        /\ (wins[w].open /\ w \notin ClientWins(clients))
              ~> (~wins[w].open \/ w \in ClientWins(clients) \/ ~Alive)

\* C40: where the selected client is visible, focusnext followed by
\* focusprev and focusprev followed by focusnext leave the same client
\* selected, and as many focusnext calls as there are visible clients select
\* each visible client once and end on the client they started from.
C40_FocusprevInvertsFocusnext ==
    LET vis == {k \in 1 .. Len(clients) :
                   \E i \in 1 .. Len(monitors) :
                      clients[k].tags \cap ActiveTags(monitors[i]) # {}}
        n   == Cardinality(vis)
        it[j \in 0 .. n] == IF j = 0 THEN State ELSE focusnext(it[j - 1], "hidden")
    IN (sel \in {clients[k].win : k \in vis})
          => /\ focusprev(focusnext(State, "hidden"), "hidden").sel = sel
             /\ focusnext(focusprev(State, "hidden"), "hidden").sel = sel
             /\ {it[j].sel : j \in 1 .. n} = {clients[k].win : k \in vis}
             /\ it[n].sel = sel
             /\ \A j \in 0 .. n : it[j].clients = clients /\ it[j].crashed = crashed

\* Three clients, the middle one hidden and the last one selected: focusnext
\* wraps to the head of the list and focusprev wraps back to the tail.
C40_Witness ==
    /\ Len(clients) = 3
    /\ isvisible(State, clients[1])
    /\ ~isvisible(State, clients[2])
    /\ isvisible(State, clients[3])
    /\ sel = clients[3].win
    /\ focusnext(State, "hidden").sel = clients[1].win
    /\ focusprev(focusnext(State, "hidden"), "hidden").sel = sel
    /\ focusprev(State, "hidden").sel = clients[1].win

====
